---- MODULE Spec2Model ----
(***************************************************************************)
(* Model of node-docs.py: the DocExtractor that scans the modules of a     *)
(* directory, walks each module's syntax tree twice (output definitions,   *)
(* then invocations and functions) and sorts the extracted node records.   *)
(*                                                                         *)
(* Syntax trees are records with a "kind" field named after the ast class. *)
(* Text is a TLA+ string; a docstring is the sequence of its lines.        *)
(***************************************************************************)
EXTENDS Naturals, Sequences, FiniteSets, TLC

VARIABLES
    legacy_ast,   \* TRUE: the interpreter's ast wraps subscripts in ast.Index (Python <= 3.8)
    listing,      \* os.listdir(directory): the modules in enumeration order
    run,          \* which execution of make_docs this is (1 or 2)
    first,        \* what the first execution produced (<<>> during the first execution)
    pc,           \* position in extract_docs / _process_file
    idx,          \* index in listing of the module being processed
    todo,         \* the rest of the ast.walk of the module being processed
    nodes,        \* DocExtractor.nodes
    functions,    \* DocExtractor.functions
    output_defs,  \* DocExtractor.output_defs (a dict: unique names, insertion order)
    stderr,       \* the diagnostics printed so far
    ann,          \* renderer harness: the annotation expression handed to the renderer
    rendered      \* renderer harness: the string it produced (<<>> before the call)

vars == <<legacy_ast, listing, run, first, pc, idx, todo, nodes, functions, output_defs, stderr, ann, rendered>>

-----------------------------------------------------------------------------
(* Bounds *)

\* the largest number of modules in the scanned directory
MaxModules == 3

\* the deepest nesting of subscripts in the annotations handed to the renderer harness
MaxAnnDepth == 1

-----------------------------------------------------------------------------
(* The ast node classes the extractor tests for *)

NoneNode == [kind |-> "None"]

Name(id) == [kind |-> "Name", id |-> id]

\* a str constant; value is its text
Str(s) == [kind |-> "Constant", is_str |-> TRUE, value |-> s]

\* a constant that is not a str; value is str() of it
Num(s) == [kind |-> "Constant", is_str |-> FALSE, value |-> s]

Attribute(value, attr) == [kind |-> "Attribute", value |-> value, attr |-> attr]

keyword(arg, value) == [arg |-> arg, value |-> value]

Call(func, args, keywords) == [kind |-> "Call", func |-> func, args |-> args, keywords |-> keywords]

Subscript(value, slice) == [kind |-> "Subscript", value |-> value, slice |-> slice]

Index(value) == [kind |-> "Index", value |-> value]

Tuple(elts) == [kind |-> "Tuple", elts |-> elts]

List(elts) == [kind |-> "List", elts |-> elts]

Expr(value) == [kind |-> "Expr", parent |-> "", value |-> value]

Return(value) == [kind |-> "Return", parent |-> "", value |-> value]

If(body, orelse) == [kind |-> "If", parent |-> "", body |-> body, orelse |-> orelse]

AnnAssign(target, annotation, value) == [kind |-> "AnnAssign", parent |-> "", target |-> target, annotation |-> annotation, value |-> value]

FunctionDef(name, decorator_list, body) == [kind |-> "FunctionDef", parent |-> "", name |-> name, decorator_list |-> decorator_list, body |-> body]

ClassDef(name, decorator_list, body) == [kind |-> "ClassDef", parent |-> "", name |-> name, decorator_list |-> decorator_list, body |-> body]

Module(body) == [kind |-> "Module", parent |-> "", body |-> body]

-----------------------------------------------------------------------------
(* The modules a scanned directory may hold.  Each is the text of one .py  *)
(* file, given by the tree Python 3.9+ parses it to (syntax_ok = FALSE:    *)
(* the text is not valid Python and ast.parse raises SyntaxError).         *)

\* a decorator call  @fn(args, kw=...)
Marker(fn, args, keywords) == Call(Name(fn), args, keywords)

\* def invoke(self): <body>
Invoke(body) == FunctionDef("invoke", <<>>, body)

\* a.py
\*   @invocation("u1", title="Banana", category="math", tags=["t"], version="1.0.0")
\*   class U1:
\*       def invoke(self):
\*           return Late()
FileA ==
    [syntax_ok |-> TRUE, tree |-> Module(<<
        ClassDef("U1",
            << Marker("invocation", <<Str("u1")>>,
                   << keyword("title", Str("Banana")), keyword("category", Str("math")),
                      keyword("tags", List(<<Str("t")>>)), keyword("version", Str("1.0.0")) >>) >>,
            << Invoke(<< Return(Call(Name("Late"), <<>>, <<>>)) >>) >>)
    >>)]

\* b.py
\*   @invocation("u2", title="apple")
\*   class U2:
\*       """Adds.
\*       More."""
\*       x: Dict[str, int] = InputField(description="d", default=3)
\*       def invoke(self):
\*           return Late()
\*   @invocation_output("late")
\*   class Late:
\*       f: List[int] = OutputField(description="x")
\*   def helper():
\*       "Help."
FileB ==
    [syntax_ok |-> TRUE, tree |-> Module(<<
        ClassDef("U2",
            << Marker("invocation", <<Str("u2")>>, << keyword("title", Str("apple")) >>) >>,
            << Expr(Str(<<"Adds.", "More.">>)),
               AnnAssign(Name("x"), Subscript(Name("Dict"), Tuple(<<Name("str"), Name("int")>>)),
                   Call(Name("InputField"), <<>>,
                       << keyword("description", Str("d")), keyword("default", Num("3")) >>)),
               Invoke(<< Return(Call(Name("Late"), <<>>, <<>>)) >>) >>),
        ClassDef("Late",
            << Marker("invocation_output", <<Str("late")>>, <<>>) >>,
            << AnnAssign(Name("f"), Subscript(Name("List"), Name("int")),
                   Call(Name("OutputField"), <<>>, << keyword("description", Str("x")) >>)) >>),
        FunctionDef("helper", <<>>, << Expr(Str(<<"Help.">>)) >>)
    >>)]

\* c.py
\*   def (
FileC ==
    [syntax_ok |-> FALSE, tree |-> NoneNode]

\* d.py
\*   @invocation("u1", title="Apple")
\*   class U3:
\*       def invoke(self):
\*           if c:
\*               return self.make()
\*           else:
\*               return Late()
\*       def cleanup(self):
\*           return
\*   @invocation("u8")
\*   class U8:
\*       def prepare(self):
\*           return Late()
FileD ==
    [syntax_ok |-> TRUE, tree |-> Module(<<
        ClassDef("U3",
            << Marker("invocation", <<Str("u1")>>, << keyword("title", Str("Apple")) >>) >>,
            << Invoke(<< If(<< Return(Call(Attribute(Name("self"), "make"), <<>>, <<>>)) >>,
                            << Return(Call(Name("Late"), <<>>, <<>>)) >>) >>),
               FunctionDef("cleanup", <<>>, << Return(NoneNode) >>) >>),
        ClassDef("U8",
            << Marker("invocation", <<Str("u8")>>, <<>>) >>,
            << FunctionDef("prepare", <<>>, << Return(Call(Name("Late"), <<>>, <<>>)) >>) >>)
    >>)]

\* e.py
\*   @invocation("u5")
\*   class U5:
\*       def invoke(self):
\*           return result
\*   @invocation("u4", title="b")
\*   class U4:
\*       def invoke(self):
\*           return self.ctx.make()
\*   @invocation_output("late2")
\*   class Late:
\*       g: str
\*   def tail():
\*       return
FileE ==
    [syntax_ok |-> TRUE, tree |-> Module(<<
        ClassDef("U5",
            << Marker("invocation", <<Str("u5")>>, <<>>) >>,
            << Invoke(<< Return(Name("result")) >>) >>),
        ClassDef("U4",
            << Marker("invocation", <<Str("u4")>>, << keyword("title", Str("b")) >>) >>,
            << Invoke(<< Return(Call(Attribute(Attribute(Name("self"), "ctx"), "make"), <<>>, <<>>)) >>) >>),
        ClassDef("Late",
            << Marker("invocation_output", <<Str("late2")>>, <<>>) >>,
            << AnnAssign(Name("g"), Name("str"), NoneNode) >>),
        FunctionDef("tail", <<>>, << Return(NoneNode) >>)
    >>)]

\* f.py
\*   @invocation("u6", title="banana")
\*   class U6:
\*       def invoke(self):
\*           return self.make()
\*   class Plain:
\*       @invocation("u7", title="B")
\*       class U7:
\*           def invoke(self):
\*               return Missing()
FileF ==
    [syntax_ok |-> TRUE, tree |-> Module(<<
        ClassDef("U6",
            << Marker("invocation", <<Str("u6")>>, << keyword("title", Str("banana")) >>) >>,
            << Invoke(<< Return(Call(Attribute(Name("self"), "make"), <<>>, <<>>)) >>) >>),
        ClassDef("Plain", <<>>,
            << ClassDef("U7",
                   << Marker("invocation", <<Str("u7")>>, << keyword("title", Str("B")) >>) >>,
                   << Invoke(<< Return(Call(Name("Missing"), <<>>, <<>>)) >>) >>) >>)
    >>)]

\* the entries of the scanned directory
Filenames == {"a.py", "b.py", "c.py", "d.py", "e.py", "f.py", "g.py", "node-docs.yaml"}

\* filename.endswith('.py')
EndsWithPy(filename) == filename # "node-docs.yaml"

\* open(filepath, 'r', encoding='utf-8') and file.read() succeed; g.py holds
\* bytes that are not UTF-8 and reading it raises UnicodeDecodeError
Readable(filename) == filename # "g.py"

\* file.read() of a readable .py entry
Content(filename) ==
    CASE filename = "a.py" -> FileA
      [] filename = "b.py" -> FileB
      [] filename = "c.py" -> FileC
      [] filename = "d.py" -> FileD
      [] filename = "e.py" -> FileE
      [] filename = "f.py" -> FileF

\* the enumerations os.listdir can return: up to MaxModules distinct entries, in any order
Listings ==
    UNION { { s \in [1..n -> Filenames] : \A i, j \in 1..n : i # j => s[i] # s[j] } : n \in 1..MaxModules }

-----------------------------------------------------------------------------
(* ast.parse, as patched at the bottom of the file to add parent links *)

\* the tree Python <= 3.8 builds for an expression: every subscript's slice is wrapped in ast.Index
RECURSIVE LegacyExpr(_)
LegacyExpr(e) ==
    CASE e.kind = "Attribute" -> [e EXCEPT !.value = LegacyExpr(e.value)]
      [] e.kind = "Call" ->
            [e EXCEPT !.func = LegacyExpr(e.func),
                      !.args = [i \in 1..Len(e.args) |-> LegacyExpr(e.args[i])],
                      !.keywords = [i \in 1..Len(e.keywords) |->
                                       keyword(e.keywords[i].arg, LegacyExpr(e.keywords[i].value))]]
      [] e.kind = "Subscript" -> Subscript(LegacyExpr(e.value), Index(LegacyExpr(e.slice)))
      [] e.kind \in {"Tuple", "List"} -> [e EXCEPT !.elts = [i \in 1..Len(e.elts) |-> LegacyExpr(e.elts[i])]]
      [] OTHER -> e

\* the same for a statement and everything below it
RECURSIVE LegacyStmt(_)
LegacyStmt(n) ==
    CASE n.kind \in {"Expr", "Return"} -> [n EXCEPT !.value = LegacyExpr(n.value)]
      [] n.kind = "If" -> [n EXCEPT !.body = [i \in 1..Len(n.body) |-> LegacyStmt(n.body[i])],
                      !.orelse = [i \in 1..Len(n.orelse) |-> LegacyStmt(n.orelse[i])]]
      [] n.kind = "AnnAssign" ->
            [n EXCEPT !.target = LegacyExpr(n.target),
                      !.annotation = LegacyExpr(n.annotation),
                      !.value = LegacyExpr(n.value)]
      [] n.kind \in {"FunctionDef", "ClassDef"} ->
            [n EXCEPT !.decorator_list = [i \in 1..Len(n.decorator_list) |-> LegacyExpr(n.decorator_list[i])],
                      !.body = [i \in 1..Len(n.body) |-> LegacyStmt(n.body[i])]]
      [] n.kind = "Module" -> [n EXCEPT !.body = [i \in 1..Len(n.body) |-> LegacyStmt(n.body[i])]]

\* node.parent = parent, for the node and every statement below it; parent is
\* kept as the kind of the parent node, which is all the extractor reads of it
RECURSIVE setup_ast_parent_links(_, _)
setup_ast_parent_links(node, parent) ==
    CASE node.kind \in {"Module", "ClassDef", "FunctionDef"} ->
            [node EXCEPT !.parent = parent,
                         !.body = [i \in 1..Len(node.body) |-> setup_ast_parent_links(node.body[i], node.kind)]]
      [] node.kind = "If" ->
            [node EXCEPT !.parent = parent,
                         !.body = [i \in 1..Len(node.body) |-> setup_ast_parent_links(node.body[i], node.kind)],
                         !.orelse = [i \in 1..Len(node.orelse) |-> setup_ast_parent_links(node.orelse[i], node.kind)]]
      [] OTHER -> [node EXCEPT !.parent = parent]

\* original_parse: the tree of a syntactically valid text under the running interpreter
original_parse(content, legacy) ==
    IF legacy THEN LegacyStmt(content.tree) ELSE content.tree

\* parse_with_parent_links (installed as ast.parse); the caller tests content.syntax_ok first
parse_with_parent_links(content, legacy) ==
    setup_ast_parent_links(original_parse(content, legacy), "None")

\* ast.iter_child_nodes restricted to statements: expression nodes hold no statement and
\* are none of ClassDef, FunctionDef, Return, so leaving them out of the walk changes
\* neither which statements are visited nor their order
iter_child_nodes(node) ==
    CASE node.kind \in {"Module", "ClassDef", "FunctionDef"} -> node.body
      [] node.kind = "If" -> node.body \o node.orelse
      [] OTHER -> <<>>

\* ast.walk from a queue of nodes: breadth first, children appended to the right
RECURSIVE WalkQueue(_)
WalkQueue(queue) ==
    IF queue = <<>> THEN <<>>
    ELSE <<Head(queue)>> \o WalkQueue(Tail(queue) \o iter_child_nodes(Head(queue)))

\* ast.walk(node)
walk(node) == WalkQueue(<<node>>)

-----------------------------------------------------------------------------
(* The expression renderers *)

\* sep.join(strs)
RECURSIVE join(_, _)
join(sep, strs) ==
    IF strs = <<>> THEN ""
    ELSE IF Len(strs) = 1 THEN strs[1]
    ELSE strs[1] \o sep \o join(sep, Tail(strs))

\* DocExtractor._get_string_value
_get_string_value(node) ==
    IF node.kind = "Constant" /\ node.is_str THEN node.value ELSE ""

\* DocExtractor._get_list_values
_get_list_values(node) ==
    IF node.kind = "List" THEN [i \in 1..Len(node.elts) |-> _get_string_value(node.elts[i])] ELSE <<>>

\* DocExtractor._get_type_annotation
RECURSIVE _get_type_annotation(_)
_get_type_annotation(node) ==
    CASE node.kind = "Name" -> node.id
      [] node.kind = "Subscript" ->
            LET base == _get_type_annotation(node.value)
            IN  IF node.slice.kind = "Index"
                THEN \* For Python 3.8 compatibility
                     LET slice_value == node.slice.value
                     IN  IF slice_value.kind = "Tuple"
                         THEN LET params == [i \in 1..Len(slice_value.elts) |-> _get_type_annotation(slice_value.elts[i])]
                              IN  base \o "[" \o join(", ", params) \o "]"
                         ELSE base \o "[" \o _get_type_annotation(slice_value) \o "]"
                ELSE \* For Python 3.9+
                     base \o "[" \o _get_type_annotation(node.slice) \o "]"
      [] node.kind = "Attribute" -> _get_type_annotation(node.value) \o "." \o node.attr
      [] node.kind = "Constant" -> node.value
      [] node.kind = "Tuple" ->
            "(" \o join(", ", [i \in 1..Len(node.elts) |-> _get_type_annotation(node.elts[i])]) \o ")"
      [] node.kind = "Call" /\ node.func.kind = "Name" ->
            node.func.id \o "(" \o join(", ", [i \in 1..Len(node.args) |-> _get_type_annotation(node.args[i])]) \o ")"
      [] OTHER -> "Any"

\* DocExtractor._get_default_value (the catalogue holds no dict literal)
RECURSIVE _get_default_value(_)
_get_default_value(node) ==
    CASE node.kind = "Constant" -> node.value
      [] node.kind = "Name" -> node.id
      [] node.kind = "List" ->
            "[" \o join(", ", [i \in 1..Len(node.elts) |-> _get_default_value(node.elts[i])]) \o "]"
      [] node.kind = "Call" /\ node.func.kind = "Name" ->
            node.func.id \o "(" \o join(", ", [i \in 1..Len(node.args) |-> _get_default_value(node.args[i])]) \o ")"
      [] OTHER -> "None"

-----------------------------------------------------------------------------
(* The registry records and the per-declaration processors *)

\* NodeInfo.__init__
NodeInfo(name, title, description, long_description, category, tags, version, inputs, output) ==
    [name |-> name, title |-> title, description |-> description,
     long_description |-> long_description, category |-> category, tags |-> tags,
     version |-> version, inputs |-> inputs, output |-> output]

\* FunctionInfo.__init__
FunctionInfo(name, description) == [name |-> name, description |-> description]

\* OutputDefinitionInfo.__init__
OutputDefinitionInfo(name, fields) == [name |-> name, fields |-> fields]

\* the largest element of a set of positions, 0 for the empty set
LastOf(S) == IF S = {} THEN 0 ELSE CHOOSE i \in S : \A j \in S : j <= i

\* the smallest element of a set of positions, 0 for the empty set
FirstOf(S) == IF S = {} THEN 0 ELSE CHOOSE i \in S : \A j \in S : i <= j

\* isinstance(decorator, ast.Call) and isinstance(decorator.func, ast.Name) and decorator.func.id == id
IsMarker(decorator, id) ==
    decorator.kind = "Call" /\ decorator.func.kind = "Name" /\ decorator.func.id = id

\* the position in node.decorator_list of the first decorator the for loop matches (and breaks on), 0 if none
MatchedDecorator(node, id) ==
    FirstOf({i \in 1..Len(node.decorator_list) : IsMarker(node.decorator_list[i], id)})

\* the description a field's assigned call carries: the last keyword named
\* "description" whose value is a constant, "" if there is none
field_description(item) ==
    IF item.value.kind = "Call"
    THEN LET k == LastOf({i \in 1..Len(item.value.keywords) :
                            /\ item.value.keywords[i].arg = "description"
                            /\ item.value.keywords[i].value.kind = "Constant"})
         IN  IF k = 0 THEN "" ELSE item.value.keywords[k].value.value
    ELSE ""

\* the rendered default of an input field: the last keyword named "default"
\* decides, "None" if there is none
field_default(item) ==
    IF item.value.kind = "Call"
    THEN LET k == LastOf({i \in 1..Len(item.value.keywords) :
                            /\ item.value.keywords[i].arg = "default"})
         IN  IF k = 0 THEN "None" ELSE _get_default_value(item.value.keywords[k].value)
    ELSE "None"

\* the loop over node.body of _process_output_definition: one field per
\* annotated assignment whose target is a name, in source order
RECURSIVE output_fields(_)
output_fields(body) ==
    IF body = <<>> THEN <<>>
    ELSE LET item == Head(body)
         IN  IF item.kind = "AnnAssign" /\ item.target.kind = "Name"
             THEN << [name |-> item.target.id,
                      type |-> _get_type_annotation(item.annotation),
                      description |-> field_description(item)] >> \o output_fields(Tail(body))
             ELSE output_fields(Tail(body))

\* the loop over node.body of _process_invocation that extracts the input fields
RECURSIVE input_fields(_)
input_fields(body) ==
    IF body = <<>> THEN <<>>
    ELSE LET item == Head(body)
         IN  IF item.kind = "AnnAssign" /\ item.target.kind = "Name"
             THEN << [name |-> item.target.id,
                      type |-> _get_type_annotation(item.annotation),
                      description |-> field_description(item),
                      default |-> field_default(item)] >> \o input_fields(Tail(body))
             ELSE input_fields(Tail(body))

\* name in self.output_defs
HasDef(defs, name) == \E i \in 1..Len(defs) : defs[i].name = name

\* self.output_defs[name]
GetDef(defs, name) == defs[CHOOSE i \in 1..Len(defs) : defs[i].name = name]

\* self.output_defs[info.name] = info: a dict keeps one entry per key, a new
\* key goes last and an existing key keeps its place
SetDef(defs, info) ==
    IF HasDef(defs, info.name)
    THEN [i \in 1..Len(defs) |-> IF defs[i].name = info.name THEN info ELSE defs[i]]
    ELSE Append(defs, info)

\* a first pass that registers nothing: output definitions would have to be
\* known already when the second pass meets a class returning them
first_pass_omitted(node, defs) == defs

\* DocExtractor._process_output_definition: the value of self.output_defs after the call
_process_output_definition(node, defs) ==
    IF MatchedDecorator(node, "invocation_output") # 0
    THEN SetDef(defs, OutputDefinitionInfo(node.name, output_fields(node.body)))
    ELSE defs

\* the value a marker keyword leaves in its variable: the last keyword of that
\* name decides, absent keywords leave the initial value
marker_string(decorator, arg) ==
    LET k == LastOf({i \in 1..Len(decorator.keywords) : decorator.keywords[i].arg = arg})
    IN  IF k = 0 THEN "" ELSE _get_string_value(decorator.keywords[k].value)

\* the same for tags
marker_tags(decorator) ==
    LET k == LastOf({i \in 1..Len(decorator.keywords) : decorator.keywords[i].arg = "tags"})
    IN  IF k = 0 THEN <<>> ELSE _get_list_values(decorator.keywords[k].value)

\* whether the body starts with a docstring
HasDocstring(body) ==
    /\ body # <<>>
    /\ body[1].kind = "Expr"
    /\ body[1].value.kind = "Constant"
    /\ body[1].value.is_str

\* the lines of docstring.strip(), <<>> when there is no docstring or it is empty
docstring_lines(body) ==
    IF HasDocstring(body) /\ body[1].value.value # <<"">> THEN body[1].value.value ELSE <<>>

\* lines[0] of docstring.split('\n', 1)
first_line(lines) == IF lines = <<>> THEN "" ELSE lines[1]

\* lines[1] of docstring.split('\n', 1), when there is one
remainder(lines) == IF Len(lines) > 1 THEN join("\n", Tail(lines)) ELSE ""

\* the first FunctionDef named invoke in node.body, NoneNode if there is none
invoke_method_of(node) ==
    LET k == FirstOf({i \in 1..Len(node.body) :
                        node.body[i].kind = "FunctionDef" /\ node.body[i].name = "invoke"})
    IN  IF k = 0 THEN NoneNode ELSE node.body[k]

\* the iteration as it would be without the membership test of line 236: the
\* lookup self.output_defs[output_class] of an unregistered name raises KeyError
return_step_unguarded(res, item, defs) ==
    IF item.kind = "Return" /\ item.value.kind = "Call"
    THEN IF item.value.func.kind = "Name"
         THEN LET output_class == item.value.func.id
              IN  IF HasDef(defs, output_class)
                  THEN [raised |-> FALSE,
                        output |-> [type |-> output_class, fields |-> GetDef(defs, output_class).fields]]
                  ELSE [raised |-> TRUE, output |-> res.output]
         ELSE IF item.value.func.kind = "Attribute"
              THEN IF item.value.func.value.kind = "Name"
                   THEN [raised |-> FALSE,
                         output |-> [type |-> item.value.func.value.id \o "." \o item.value.func.attr \o "(...)",
                                     fields |-> <<>>]]
                   ELSE [raised |-> TRUE, output |-> res.output]
              ELSE res
    ELSE res

\* one iteration of the loop over ast.walk(invoke_method): res is
\* [raised, output] so far, the result is that after the item
return_step(res, item, defs) ==
    IF item.kind = "Return" /\ item.value.kind = "Call"
    THEN IF item.value.func.kind = "Name"
         THEN LET output_class == item.value.func.id
              IN  IF HasDef(defs, output_class)
                  THEN [raised |-> FALSE,
                        output |-> [type |-> output_class, fields |-> GetDef(defs, output_class).fields]]
                  ELSE [raised |-> FALSE, output |-> [type |-> output_class, fields |-> <<>>]]
         ELSE IF item.value.func.kind = "Attribute"
              THEN IF item.value.func.value.kind = "Name"
                   THEN [raised |-> FALSE,
                         output |-> [type |-> item.value.func.value.id \o "." \o item.value.func.attr \o "(...)",
                                     fields |-> <<>>]]
                   ELSE \* item.value.func.value has no attribute id: AttributeError
                        [raised |-> TRUE, output |-> res.output]
              ELSE res
    ELSE res

\* the loop as it would be with a break after the first qualifying return statement
RECURSIVE scan_returns_first(_, _, _)
scan_returns_first(res, items, defs) ==
    IF items = <<>> THEN res
    ELSE LET item == Head(items)
         IN  IF /\ item.kind = "Return"
                /\ item.value.kind = "Call"
                /\ item.value.func.kind \in {"Name", "Attribute"}
             THEN return_step(res, item, defs)
             ELSE scan_returns_first(res, Tail(items), defs)

\* the loop over ast.walk(invoke_method): it has no break, every qualifying
\* return statement assigns output, and an exception leaves the loop
RECURSIVE scan_returns(_, _, _)
scan_returns(res, items, defs) ==
    IF items = <<>> \/ res.raised THEN res
    ELSE scan_returns(return_step(res, Head(items), defs), Tail(items), defs)

\* the output information of an invocation class: [raised, output]; the
\* return_type the method computes from the decorators and the annotation of
\* invoke is never read and is left out
find_output(node, defs) ==
    LET invoke_method == invoke_method_of(node)
        empty == [raised |-> FALSE, output |-> [type |-> "", fields |-> <<>>]]
    IN  IF invoke_method.kind = "None" THEN empty
        ELSE scan_returns(empty, walk(invoke_method), defs)

\* the NodeInfo that _process_invocation builds for a class carrying the marker
node_info_of(node, decorator, output) ==
    NodeInfo(IF decorator.args # <<>> THEN _get_string_value(decorator.args[1]) ELSE "",
             marker_string(decorator, "title"),
             first_line(docstring_lines(node.body)),
             remainder(docstring_lines(node.body)),
             marker_string(decorator, "category"),
             marker_tags(decorator),
             marker_string(decorator, "version"),
             input_fields(node.body),
             output)

\* an append that keeps identity names unique: a record of the same name is dropped first
append_node_unique_name(list, node_info) ==
    Append(SelectSeq(list, LAMBDA r : r.name # node_info.name), node_info)

\* self.nodes.append(node_info)
append_node(list, node_info) == Append(list, node_info)

\* DocExtractor._process_invocation: [raised, nodes], the value of self.nodes
\* after the call and whether the call raised
_process_invocation(node, list, defs) ==
    LET d == MatchedDecorator(node, "invocation")
    IN  IF d = 0 THEN [raised |-> FALSE, nodes |-> list]
        ELSE LET found == find_output(node, defs)
             IN  IF found.raised THEN [raised |-> TRUE, nodes |-> list]
                 ELSE [raised |-> FALSE,
                       nodes |-> append_node(list, node_info_of(node, node.decorator_list[d], found.output))]

\* DocExtractor._process_function: the value of self.functions after the call
_process_function(node, list) ==
    Append(list, FunctionInfo(node.name, first_line(docstring_lines(node.body))))

-----------------------------------------------------------------------------
(* Sorting: NodeInfo.__lt__ and list.sort() *)

\* the code points of the titles that occur in the catalogue
ord(title) ==
    CASE title = "" -> <<>>
      [] title = "Banana" -> <<66, 97, 110, 97, 110, 97>>
      [] title = "banana" -> <<98, 97, 110, 97, 110, 97>>
      [] title = "apple" -> <<97, 112, 112, 108, 101>>
      [] title = "Apple" -> <<65, 112, 112, 108, 101>>
      [] title = "B" -> <<66>>
      [] title = "b" -> <<98>>

\* str.lower() on code points: A..Z map to a..z, the rest stay
lower(codes) == [i \in 1..Len(codes) |-> IF codes[i] >= 65 /\ codes[i] <= 90 THEN codes[i] + 32 ELSE codes[i]]

\* str.__lt__ on code points: lexicographic, a proper prefix is smaller
RECURSIVE str_lt(_, _)
str_lt(a, b) ==
    IF b = <<>> THEN FALSE
    ELSE IF a = <<>> THEN TRUE
    ELSE IF a[1] # b[1] THEN a[1] < b[1]
    ELSE str_lt(Tail(a), Tail(b))

\* a comparison that forgets lower(): titles compared as written
NodeInfo_lt_case_sensitive(self, other) == str_lt(ord(self.title), ord(other.title))

\* NodeInfo.__lt__
NodeInfo_lt(self, other) == str_lt(lower(ord(self.title)), lower(ord(other.title)))

\* one insertion of list.sort(): x goes right after the last element it is not smaller than
insort(sorted, x) ==
    LET k == LastOf({i \in 1..Len(sorted) : ~NodeInfo_lt(x, sorted[i])})
    IN  SubSeq(sorted, 1, k) \o <<x>> \o SubSeq(sorted, k + 1, Len(sorted))

\* list.sort(): a stable sort that compares with __lt__ only
RECURSIVE sort_from(_, _)
sort_from(sorted, rest) ==
    IF rest = <<>> THEN sorted ELSE sort_from(insort(sorted, Head(rest)), Tail(rest))

\* extract_docs without its final sort: nodes stays in insertion order
sort_omitted(list) == list

\* self.nodes.sort()
sort(list) == sort_from(<<>>, list)

-----------------------------------------------------------------------------
(* make_docs: DocExtractor(directory), extract_docs() *)

\* DocExtractor.__init__: the three empty collections
fresh_nodes == <<>>

fresh_functions == <<>>

fresh_output_defs == <<>>

\* the state right after the extractor is constructed and os.listdir has answered
Start(l) ==
    /\ listing = l
    /\ pc = "listdir"
    /\ idx = 1
    /\ todo = <<>>
    /\ nodes = fresh_nodes
    /\ functions = fresh_functions
    /\ output_defs = fresh_output_defs
    /\ stderr = <<>>

Init ==
    /\ legacy_ast \in BOOLEAN
    /\ \E l \in Listings : Start(l)
    /\ run = 1
    /\ first = <<>>
    /\ ann = NoneNode
    /\ rendered = ""

\* the tree of the module being processed
tree == parse_with_parent_links(Content(listing[idx]), legacy_ast)

\* the for loop of extract_docs meets an entry that does not end in .py
SkipEntry ==
    /\ pc = "listdir"
    /\ idx <= Len(listing)
    /\ ~EndsWithPy(listing[idx])
    /\ idx' = idx + 1
    /\ UNCHANGED <<legacy_ast, listing, run, first, pc, todo, nodes, functions, output_defs, stderr, ann, rendered>>

\* reading the entry raises: the except clause of extract_docs reports it
ReadFailure ==
    /\ pc = "listdir"
    /\ idx <= Len(listing)
    /\ EndsWithPy(listing[idx])
    /\ ~Readable(listing[idx])
    /\ stderr' = Append(stderr, <<"Error processing", listing[idx], "UnicodeDecodeError">>)
    /\ idx' = idx + 1
    /\ UNCHANGED <<legacy_ast, listing, run, first, pc, todo, nodes, functions, output_defs, ann, rendered>>

\* an except clause that throws away what the extractor has collected so far
except_clause_discarding ==
    /\ nodes' = <<>>
    /\ functions' = <<>>
    /\ output_defs' = <<>>

\* the except clause of _process_file, as far as the collections go: it
\* prints to stderr and assigns none of them
except_clause ==
    /\ nodes' = nodes
    /\ functions' = functions
    /\ output_defs' = output_defs

\* _process_file: ast.parse raises SyntaxError, which the except clause reports
ParseFailure ==
    /\ pc = "listdir"
    /\ idx <= Len(listing)
    /\ EndsWithPy(listing[idx])
    /\ Readable(listing[idx])
    /\ ~Content(listing[idx]).syntax_ok
    /\ stderr' = Append(stderr, <<"Error parsing", listing[idx], "SyntaxError">>)
    /\ except_clause
    /\ idx' = idx + 1
    /\ UNCHANGED <<legacy_ast, listing, run, first, pc, todo, ann, rendered>>

\* _process_file: ast.parse succeeds and the first pass starts its walk
ParseModule ==
    /\ pc = "listdir"
    /\ idx <= Len(listing)
    /\ EndsWithPy(listing[idx])
    /\ Readable(listing[idx])
    /\ Content(listing[idx]).syntax_ok
    /\ todo' = walk(tree)
    /\ pc' = "first_pass"
    /\ UNCHANGED <<legacy_ast, listing, run, first, idx, nodes, functions, output_defs, stderr, ann, rendered>>

\* one iteration of the first pass; after the last one the second pass starts its walk
FirstPassStep ==
    /\ pc = "first_pass"
    /\ LET node == Head(todo)
       IN  output_defs' = IF node.kind = "ClassDef" THEN _process_output_definition(node, output_defs)
                          ELSE output_defs
    /\ IF Tail(todo) = <<>>
       THEN todo' = walk(tree) /\ pc' = "second_pass"
       ELSE todo' = Tail(todo) /\ pc' = pc
    /\ UNCHANGED <<legacy_ast, listing, run, first, idx, nodes, functions, stderr, ann, rendered>>

\* what the second pass does with one node: [raised, nodes, functions]
second_pass_node(node) ==
    IF node.kind = "ClassDef"
    THEN LET r == _process_invocation(node, nodes, output_defs)
         IN  [raised |-> r.raised, nodes |-> r.nodes, functions |-> functions]
    ELSE IF node.kind = "FunctionDef" /\ node.parent = "Module"
         THEN [raised |-> FALSE, nodes |-> nodes, functions |-> _process_function(node, functions)]
         ELSE [raised |-> FALSE, nodes |-> nodes, functions |-> functions]

\* one iteration of the second pass that does not raise; after the last one
\* _process_file returns and extract_docs goes on to the next entry
SecondPassStep ==
    /\ pc = "second_pass"
    /\ LET r == second_pass_node(Head(todo))
       IN  /\ ~r.raised
           /\ nodes' = r.nodes
           /\ functions' = r.functions
    /\ IF Tail(todo) = <<>>
       THEN todo' = <<>> /\ pc' = "listdir" /\ idx' = idx + 1
       ELSE todo' = Tail(todo) /\ pc' = pc /\ idx' = idx
    /\ UNCHANGED <<legacy_ast, listing, run, first, output_defs, stderr, ann, rendered>>

\* an iteration of the second pass raises: the except clause of _process_file
\* reports it, the rest of the module is not visited
SecondPassRaise ==
    /\ pc = "second_pass"
    /\ second_pass_node(Head(todo)).raised
    /\ stderr' = Append(stderr, <<"Error parsing", listing[idx], "AttributeError">>)
    /\ except_clause
    /\ todo' = <<>>
    /\ pc' = "listdir"
    /\ idx' = idx + 1
    /\ UNCHANGED <<legacy_ast, listing, run, first, ann, rendered>>

\* the for loop of extract_docs is over: self.nodes.sort()
SortNodes ==
    /\ pc = "listdir"
    /\ idx > Len(listing)
    /\ nodes' = sort(nodes)
    /\ pc' = "done"
    /\ UNCHANGED <<legacy_ast, listing, run, first, idx, todo, functions, output_defs, stderr, ann, rendered>>

\* extract_docs
Next ==
    \/ SkipEntry
    \/ ReadFailure
    \/ ParseFailure
    \/ ParseModule
    \/ FirstPassStep
    \/ SecondPassStep
    \/ SecondPassRaise
    \/ SortNodes

Spec == Init /\ [][Next]_vars

-----------------------------------------------------------------------------
(* make_docs executed a second time on the same directory *)

\* the largest directory for which a second execution is explored
MaxRerunModules == 2

\* the orders in which os.listdir may enumerate the entries of l
Reorderings(l) ==
    { [i \in 1..Len(l) |-> l[p[i]]] : p \in Permutations(1..Len(l)) }

InitRerun ==
    /\ Init
    /\ Len(listing) <= MaxRerunModules

\* a second execution that goes on with the collections of the first
DocExtractor_init_reusing ==
    /\ nodes' = nodes
    /\ functions' = functions
    /\ output_defs' = output_defs

\* DocExtractor.__init__ of the second execution: three new empty collections
DocExtractor_init ==
    /\ nodes' = <<>>
    /\ functions' = <<>>
    /\ output_defs' = <<>>

\* make_docs runs again: a new DocExtractor, a new os.listdir of the same entries
Rerun ==
    /\ pc = "done"
    /\ run = 1
    /\ first' = [listing |-> listing, nodes |-> nodes, functions |-> functions, output_defs |-> output_defs]
    /\ run' = 2
    /\ listing' \in Reorderings(listing)
    /\ DocExtractor_init
    /\ stderr' = <<>>
    /\ idx' = 1
    /\ pc' = "listdir"
    /\ UNCHANGED <<legacy_ast, todo, ann, rendered>>

NextRerun ==
    \/ Next
    \/ Rerun

SpecRerun == InitRerun /\ [][NextRerun]_vars

-----------------------------------------------------------------------------
(* The type-annotation renderer applied to one annotation *)

\* the names and other leaves an annotation is built from
Atoms == << Name("A"), Name("B"), Name("int"), Attribute(Name("torch"), "Tensor"), Num("1") >>

\* the annotations of subscript depth at most d, as source expressions
RECURSIVE Annotations(_)
Annotations(d) ==
    IF d = 0 THEN Atoms
    ELSE LET sub == Annotations(d - 1)
             n == Len(sub)
         IN  sub
             \o [k \in 1..n |-> Subscript(Name("Base"), sub[k])]
             \o [k \in 1..(n * n) |-> Subscript(Name("Base"), Tuple(<<sub[((k - 1) \div n) + 1], sub[((k - 1) % n) + 1]>>))]

InitRender ==
    /\ legacy_ast \in BOOLEAN
    /\ \E k \in 1..Len(Annotations(MaxAnnDepth)) : ann = Annotations(MaxAnnDepth)[k]
    /\ rendered = ""
    /\ pc = "render"
    /\ listing = <<>>
    /\ run = 1
    /\ first = <<>>
    /\ idx = 1
    /\ todo = <<>>
    /\ nodes = <<>>
    /\ functions = <<>>
    /\ output_defs = <<>>
    /\ stderr = <<>>

\* item.annotation as the running interpreter parses the annotation
parsed_annotation == IF legacy_ast THEN LegacyExpr(ann) ELSE ann

\* field_type = self._get_type_annotation(item.annotation)
RenderAnnotation ==
    /\ pc = "render"
    /\ rendered' = _get_type_annotation(parsed_annotation)
    /\ pc' = "rendered"
    /\ UNCHANGED <<legacy_ast, listing, run, first, idx, todo, nodes, functions, output_defs, stderr, ann>>

NextRender == RenderAnnotation

SpecRender == InitRender /\ [][NextRender]_vars

-----------------------------------------------------------------------------
(* What the modules of a listing declare, read off their source trees *)

\* the entry is a module whose text parses
Parses(filename) == EndsWithPy(filename) /\ Readable(filename) /\ Content(filename).syntax_ok

\* the entry is a module whose text does not parse
Broken(filename) == EndsWithPy(filename) /\ Readable(filename) /\ ~Content(filename).syntax_ok

\* the class declarations of a module that parses, top-level and nested
ClassesOf(filename) ==
    LET w == walk(Content(filename).tree)
    IN  { w[i] : i \in { j \in 1..Len(w) : w[j].kind = "ClassDef" } }

\* those carrying the invocation marker
MarkedClassesOf(filename) == { c \in ClassesOf(filename) : MatchedDecorator(c, "invocation") # 0 }

\* those carrying the invocation_output marker
OutputClassesOf(filename) == { c \in ClassesOf(filename) : MatchedDecorator(c, "invocation_output") # 0 }

\* the top-level functions of a module that parses
TopLevelFunctionsOf(filename) ==
    LET body == Content(filename).tree.body
    IN  { body[i].name : i \in { j \in 1..Len(body) : body[j].kind = "FunctionDef" } }

\* the modules of the listing that parse
ValidModules == { listing[i] : i \in { j \in 1..Len(listing) : Parses(listing[j]) } }

\* the sum of f over a finite set
RECURSIVE SumOver(_, _)
SumOver(S, f) ==
    IF S = {} THEN 0
    ELSE LET x == CHOOSE y \in S : TRUE IN f[x] + SumOver(S \ {x}, f)

\* the number of marked class declarations across the modules of the listing
MarkedCount == SumOver(ValidModules, [m \in ValidModules |-> Cardinality(MarkedClassesOf(m))])

\* the number of top-level functions across the modules of the listing
FunctionCount == SumOver(ValidModules, [m \in ValidModules |-> Cardinality(TopLevelFunctionsOf(m))])

\* the names of the output definitions declared by the modules of the listing
DeclaredOutputNames == UNION { { c.name : c \in OutputClassesOf(m) } : m \in ValidModules }

\* the field names of the output definitions called name that the listing declares
DeclaredFieldNames(name) ==
    UNION { { [i \in 1..Len(output_fields(c.body)) |-> output_fields(c.body)[i].name] :
                c \in { k \in OutputClassesOf(m) : k.name = name } } : m \in ValidModules }

\* the position of an entry in the listing, 0 if it is not there
PositionOf(filename) == FirstOf({ i \in 1..Len(listing) : listing[i] = filename })

-----------------------------------------------------------------------------
(* C1 *)

\* C1: every record whose output type names an output definition that some
\* module of the directory declares carries the fields of such a definition,
\* wherever and whenever that definition is declared
C1_OutputResolvedAgainstAllModules ==
    \A i \in 1..Len(nodes) :
        nodes[i].output.type \in DeclaredOutputNames
            => [k \in 1..Len(nodes[i].output.fields) |-> nodes[i].output.fields[k].name]
                   \in DeclaredFieldNames(nodes[i].output.type)

-----------------------------------------------------------------------------
(* C2 *)

\* C2: once extract_docs has finished on a directory whose modules all parse,
\* nodes holds one record per class declaration carrying the invocation marker
C2_OneRecordPerMarkedClass ==
    (pc = "done" /\ \A i \in 1..Len(listing) : EndsWithPy(listing[i]) => Parses(listing[i]))
        => Len(nodes) = MarkedCount

-----------------------------------------------------------------------------
(* C3 *)

\* the sort key of a record: its title, case folded
TitleKey(r) == lower(ord(r.title))

\* out is ordered by key ascending and is a rearrangement of src that keeps
\* records of equal key in the order they have in src
IsStableSortOf(out, src) ==
    /\ Len(out) = Len(src)
    /\ \E p \in Permutations(1..Len(src)) :
           /\ \A i \in 1..Len(src) : out[i] = src[p[i]]
           /\ \A i, j \in 1..Len(src) :
                  i < j => /\ ~str_lt(TitleKey(out[j]), TitleKey(out[i]))
                           /\ TitleKey(out[i]) = TitleKey(out[j]) => p[i] < p[j]

-----------------------------------------------------------------------------
(* C4 *)

\* C4: when the listing holds a module that does not parse, a finished run has
\* every record of every module that does parse: one node per marked class,
\* one function per top-level function, every declared output definition
C4_BrokenModuleDoesNotPreventOthers ==
    (pc = "done" /\ \E i \in 1..Len(listing) : Broken(listing[i]))
        => /\ Len(nodes) = MarkedCount
           /\ Len(functions) = FunctionCount
           /\ DeclaredOutputNames = { output_defs[i].name : i \in 1..Len(output_defs) }

-----------------------------------------------------------------------------
(* C5, C6 *)

\* the marked class declarations of the listing
AllMarkedClasses == UNION { MarkedClassesOf(m) : m \in ValidModules }

\* the identity name and the title a marked class declares
DeclaredName(c) ==
    LET d == c.decorator_list[MatchedDecorator(c, "invocation")]
    IN  IF d.args # <<>> THEN _get_string_value(d.args[1]) ELSE ""

DeclaredTitle(c) == marker_string(c.decorator_list[MatchedDecorator(c, "invocation")], "title")

\* the marked classes a record can come from
ClassesOfRecord(r) ==
    { c \in AllMarkedClasses : DeclaredName(c) = r.name /\ DeclaredTitle(c) = r.title }

\* the return statements of the class's invoke method that return a direct
\* call to a name or to an attribute, in the order the search meets them
QualifyingReturns(c) ==
    IF invoke_method_of(c).kind = "None" THEN <<>>
    ELSE SelectSeq(walk(invoke_method_of(c)),
                   LAMBDA item : /\ item.kind = "Return"
                                 /\ item.value.kind = "Call"
                                 /\ item.value.func.kind \in {"Name", "Attribute"})

\* the output type a qualifying return statement stands for
TypeOfReturn(item) ==
    IF item.value.func.kind = "Name" THEN item.value.func.id
    ELSE _get_type_annotation(item.value.func) \o "(...)"

\* C5 as stated: the record of a class with qualifying return statements has
\* the output type of the first of them (first match wins)
C5_FirstQualifyingReturnWins ==
    \A i \in 1..Len(nodes) : \A c \in ClassesOfRecord(nodes[i]) :
        QualifyingReturns(c) # <<>>
            => nodes[i].output.type = TypeOfReturn(QualifyingReturns(c)[1])

\* C5 amended: the record of a class with qualifying return statements has the
\* output type of the last of them in the order of the search (last match wins)
C5_LastQualifyingReturnWins ==
    \A i \in 1..Len(nodes) : \A c \in ClassesOfRecord(nodes[i]) :
        QualifyingReturns(c) # <<>>
            => nodes[i].output.type = TypeOfReturn(QualifyingReturns(c)[Len(QualifyingReturns(c))])

\* C5 witness: the record of U3 (d.py), whose invoke returns self.make() in the
\* if branch and Late() in the else branch, with the type of the later one
C5_Witness ==
    \E i \in 1..Len(nodes) :
        /\ nodes[i].name = "u1" /\ nodes[i].title = "Apple"
        /\ nodes[i].output.type = "Late"
        /\ \E c \in ClassesOfRecord(nodes[i]) : Len(QualifyingReturns(c)) = 2

\* the marked classes whose qualifying return statements all call an attribute
AttributeReturning(c) ==
    /\ QualifyingReturns(c) # <<>>
    /\ \A k \in 1..Len(QualifyingReturns(c)) : QualifyingReturns(c)[k].value.func.kind = "Attribute"

\* C6: processing a class whose invoke returns a call of an attribute X.Y
\* never raises, and its record has output type "X.Y(...)" and no fields
C6_AttributeCallNeverRaises ==
    /\ \A k \in 1..Len(stderr) : stderr[k][3] # "AttributeError"
    /\ \A i \in 1..Len(nodes) : \A c \in ClassesOfRecord(nodes[i]) :
           AttributeReturning(c)
               => nodes[i].output = [type |-> TypeOfReturn(QualifyingReturns(c)[1]), fields |-> <<>>]

-----------------------------------------------------------------------------
(* C7, C8 *)

WithoutOutputFields(r) == [r EXCEPT !.output.fields = <<>>]

\* C8 as stated: whatever order the second execution enumerates the entries
\* in, it ends with the same sequence of records in nodes (the records are
\* compared without their resolved output fields, which C1 is about)
C8_OrderIndependentNodes ==
    (run = 2 /\ pc = "done")
        => /\ Len(nodes) = Len(first.nodes)
           /\ \A i \in 1..Len(nodes) :
                  WithoutOutputFields(nodes[i]) = WithoutOutputFields(first.nodes[i])

\* how many elements of the sequence, stripped of output fields, equal x
Occurrences(seq, x) == Cardinality({ i \in 1..Len(seq) : WithoutOutputFields(seq[i]) = x })

\* C8 amended: whatever order the second execution enumerates the entries in,
\* it ends with the same sequence of case-folded titles and with the same
\* records up to their resolved output fields; the order among titles equal
\* but for case and the output fields may follow the enumeration
C8_OrderIndependentTitles ==
    (run = 2 /\ pc = "done")
        => /\ Len(nodes) = Len(first.nodes)
           /\ \A i \in 1..Len(nodes) : TitleKey(nodes[i]) = TitleKey(first.nodes[i])
           /\ \A i \in 1..Len(nodes) :
                  Occurrences(nodes, WithoutOutputFields(nodes[i]))
                      = Occurrences(first.nodes, WithoutOutputFields(nodes[i]))

\* C8 witness: a finished second execution under another enumeration order
\* whose nodes differ from those of the first
C8_Witness ==
    /\ run = 2 /\ pc = "done"
    /\ listing # first.listing
    /\ Len(nodes) >= 2
    /\ nodes # first.nodes

-----------------------------------------------------------------------------
(* C9 *)

\* C9 as stated: no two records of nodes have the same identity name
C9_UniqueIdentityNames ==
    \A i, j \in 1..Len(nodes) : i # j => nodes[i].name # nodes[j].name

\* how many elements of the sequence equal x
CountOf(seq, x) == Cardinality({ i \in 1..Len(seq) : seq[i] = x })

\* C9 amended: no step removes or replaces a record of nodes, and the step in
\* which the second pass completes a marked class appends one record carrying
\* the declared identity name, whether or not that name is already in nodes
C9_RecordsAppendedNeverReplaced ==
    [][/\ \A i \in 1..Len(nodes) : CountOf(nodes', nodes[i]) >= CountOf(nodes, nodes[i])
       /\ (/\ pc = "second_pass"
           /\ Head(todo).kind = "ClassDef"
           /\ MatchedDecorator(Head(todo), "invocation") # 0
           /\ stderr' = stderr)
              => /\ Len(nodes') = Len(nodes) + 1
                 /\ nodes'[Len(nodes')].name = DeclaredName(Head(todo))]_vars

\* C9 witness: a finished run whose nodes hold two records of one identity name
C9_Witness ==
    /\ pc = "done"
    /\ \E i, j \in 1..Len(nodes) : i < j /\ nodes[i].name = nodes[j].name

-----------------------------------------------------------------------------
(* C10 *)

\* the parameters of a subscript with a tuple of parameters, as parsed
ParsedParams(e) == IF e.slice.kind = "Index" THEN e.slice.value.elts ELSE e.slice.elts

\* C10: a subscript whose slice is a tuple of parameters is rendered as the
\* base, "[", the parameters joined by ", " and "]", with nothing added
C10_TupleSubscriptRendering ==
    (pc = "rendered" /\ ann.kind = "Subscript" /\ ann.slice.kind = "Tuple")
        => rendered = _get_type_annotation(parsed_annotation.value)
                        \o "[" \o join(", ", [i \in 1..Len(ParsedParams(parsed_annotation)) |->
                                                 _get_type_annotation(ParsedParams(parsed_annotation)[i])])
                        \o "]"

-----------------------------------------------------------------------------
(* C11 *)

\* the return statements of the class's invoke method that return a call of
\* any kind, in the order the search meets them
DirectCallReturns(c) ==
    IF invoke_method_of(c).kind = "None" THEN <<>>
    ELSE SelectSeq(walk(invoke_method_of(c)),
                   LAMBDA item : item.kind = "Return" /\ item.value.kind = "Call")

\* the class's invoke method returns calls of simple names only
NameReturning(c) ==
    /\ QualifyingReturns(c) # <<>>
    /\ \A k \in 1..Len(QualifyingReturns(c)) : QualifyingReturns(c)[k].value.func.kind = "Name"

\* the second pass is about to process a class carrying the invocation marker
AtMarkedClass ==
    /\ pc = "second_pass"
    /\ Head(todo).kind = "ClassDef"
    /\ MatchedDecorator(Head(todo), "invocation") # 0

\* the step reports no error and appends one record whose output reference is out
AppendsWithOutput(out) ==
    /\ stderr' = stderr
    /\ Len(nodes') = Len(nodes) + 1
    /\ nodes'[Len(nodes')].output = out

\* C11: processing a marked class whose invoke returns a call of a simple
\* name N that output_defs does not hold at that moment reports no error and
\* appends a record with output {type: N, fields: empty}; processing a marked
\* class that has no method named invoke, or whose invoke has no return
\* statement returning a call, appends a record with output {type: "", fields: empty}
C11_UnresolvedOutputDegrades ==
    [][AtMarkedClass =>
          LET c == Head(todo)
              q == QualifyingReturns(c)
          IN  /\ (NameReturning(c) /\ ~HasDef(output_defs, TypeOfReturn(q[Len(q)])))
                     => AppendsWithOutput([type |-> TypeOfReturn(q[Len(q)]), fields |-> <<>>])
              /\ (invoke_method_of(c).kind = "None" \/ DirectCallReturns(c) = <<>>)
                     => AppendsWithOutput([type |-> "", fields |-> <<>>])]_vars

\* C11 witness: a finished run holding the record of U7 (invoke returns
\* Missing(), declared nowhere) with type "Missing" and no fields, the record
\* of U8 (no method named invoke) and the record of U5 (invoke returns a
\* plain name) both with the empty output reference
C11_Witness ==
    /\ pc = "done"
    /\ \E i, j, k \in 1..Len(nodes) :
           /\ nodes[i].name = "u7" /\ nodes[i].output = [type |-> "Missing", fields |-> <<>>]
           /\ nodes[j].name = "u8" /\ nodes[j].output = [type |-> "", fields |-> <<>>]
           /\ nodes[k].name = "u5" /\ nodes[k].output = [type |-> "", fields |-> <<>>]

-----------------------------------------------------------------------------
(* C12 *)

\* the output definitions the module being processed declares, top-level and
\* nested, as parsed
OutputClassesOfTree ==
    LET w == walk(tree)
    IN  { w[i] : i \in { j \in 1..Len(w) : w[j].kind = "ClassDef"
                                              /\ MatchedDecorator(w[j], "invocation_output") # 0 } }

\* the module being processed declares an output definition called name
DeclaredInModule(name) == \E c \in OutputClassesOfTree : c.name = name

\* C12: while _process_file handles one module, the first pass appends no
\* node and no function; throughout the second pass output_defs holds every
\* output definition the module declares, with the fields of its declaration;
\* and a marked class whose invoke returns a call of an output definition of
\* the same module gets a record with that definition's fields, also when the
\* definition is declared after the class
C12_OutputDefinitionsRegisteredFirst ==
    /\ [][pc = "first_pass" => (nodes' = nodes /\ functions' = functions)]_vars
    /\ [](pc = "second_pass" =>
             \A c \in OutputClassesOfTree :
                 /\ HasDef(output_defs, c.name)
                 /\ GetDef(output_defs, c.name).fields = output_fields(c.body))
    /\ [][AtMarkedClass =>
             LET c == Head(todo)
                 q == QualifyingReturns(c)
             IN  (NameReturning(c) /\ DeclaredInModule(TypeOfReturn(q[Len(q)])))
                     => \E o \in OutputClassesOfTree :
                            /\ o.name = TypeOfReturn(q[Len(q)])
                            /\ AppendsWithOutput([type |-> o.name, fields |-> output_fields(o.body)])]_vars

\* C12 witness: b.py is the first module processed, and during its second
\* pass the record of U2, declared before Late, carries Late's field f
C12_Witness ==
    /\ pc = "second_pass"
    /\ idx = 1
    /\ listing[1] = "b.py"
    /\ \E i \in 1..Len(nodes) :
           /\ nodes[i].name = "u2"
           /\ nodes[i].output.type = "Late"
           /\ Len(nodes[i].output.fields) = 1
           /\ nodes[i].output.fields[1].name = "f"

-----------------------------------------------------------------------------
(* C13 *)

\* extract_docs is about to hand a module whose text does not parse to _process_file
AtBrokenModule ==
    /\ pc = "listdir"
    /\ idx <= Len(listing)
    /\ Broken(listing[idx])

\* C13: the _process_file call for a module whose text does not parse leaves
\* nodes, functions and output_defs exactly as they were, and extract_docs
\* goes on to the next entry
C13_ParseFailureLeavesRegistryUnchanged ==
    [][AtBrokenModule =>
          /\ nodes' = nodes
          /\ functions' = functions
          /\ output_defs' = output_defs
          /\ pc' = "listdir"
          /\ idx' = idx + 1]_vars

\* C13 witness: the broken module has just been processed, its SyntaxError is
\* reported, and the records an earlier module registered are all still there
C13_Witness ==
    /\ pc = "listdir"
    /\ idx > 1
    /\ Broken(listing[idx - 1])
    /\ stderr # <<>>
    /\ stderr[Len(stderr)] = <<"Error parsing", listing[idx - 1], "SyntaxError">>
    /\ nodes # <<>>
    /\ functions # <<>>
    /\ output_defs # <<>>

====
